---- MODULE Spec2Model ----
(***************************************************************************)
(* A model of generate_compile_commands.go: the linear pipeline of main()  *)
(* that resolves the Bazel directories, runs the two action queries,       *)
(* transforms the compiler arguments, enumerates the sources of every      *)
(* target and writes compile_commands.json.                                *)
(*                                                                         *)
(* Go strings are TLA+ strings; Go slices are (ptr, len, cap) triples over *)
(* a heap of backing arrays, so that append() aliases exactly where Go     *)
(* does.                                                                   *)
(***************************************************************************)
EXTENDS Integers, Sequences, FiniteSets, TLC

VARIABLES
    goos,               \* runtime.GOOS of the build
    env,                \* $BUILD_WORKSPACE_DIRECTORY
    bazel,              \* the build graph the tool answers from: aquery and cquery results
    pc,                 \* position of main()
    diag,               \* the message of the panic that ended the run, "" if none
    invoked,            \* argv of every external command run so far, in order
    workspace, executionRoot, outputBaseDir, binDir,
    xcodeSDKPath, xcodeDeveloperDir,
    container,          \* the action graph parsed by the last queryMnemonic
    targetLabels,       \* map[int]string
    ccTargets,          \* map[string]*ccTarget
    heap,               \* backing arrays of the []string slices
    labels,             \* sort.StringSlice
    tmpDir,             \* the temporary cquery directory exists
    scannedSrcs,        \* map[string]bool
    li,                 \* index of the next label of the cquery loop
    compileCommands,    \* []compileCommand
    output              \* the writes made to the file system

vars == <<goos, env, bazel, pc, diag, invoked, workspace, executionRoot, outputBaseDir, binDir,
          xcodeSDKPath, xcodeDeveloperDir, container, targetLabels, ccTargets, heap,
          labels, tmpDir, scannedSrcs, li, compileCommands, output>>

(***************************************************************************)
(* Bounds of the model.                                                    *)
(***************************************************************************)
\* arguments after the compiler in an action drawn from the rich argument set
MaxArgs == 3
\* lines of one cquery response
MaxSrcs == 2
\* actions of one action graph
MaxActions == 2

(***************************************************************************)
(* strings, path                                                           *)
(***************************************************************************)
HasPrefix(s, p) == Len(s) >= Len(p) /\ SubSeq(s, 1, Len(p)) = p

TrimPrefix(s, p) == IF HasPrefix(s, p) THEN SubSeq(s, Len(p) + 1, Len(s)) ELSE s

RECURSIVE ReplaceAll(_, _, _)
ReplaceAll(s, old, new) ==
    IF s = "" THEN ""
    ELSE IF HasPrefix(s, old)
         THEN new \o ReplaceAll(SubSeq(s, Len(old) + 1, Len(s)), old, new)
         ELSE SubSeq(s, 1, 1) \o ReplaceAll(SubSeq(s, 2, Len(s)), old, new)

\* strings.Split(s, sep) for a one-character separator
RECURSIVE SplitFrom(_, _, _)
SplitFrom(s, sep, cur) ==
    IF s = "" THEN <<cur>>
    ELSE IF SubSeq(s, 1, 1) = sep
         THEN <<cur>> \o SplitFrom(SubSeq(s, 2, Len(s)), sep, "")
         ELSE SplitFrom(SubSeq(s, 2, Len(s)), sep, cur \o SubSeq(s, 1, 1))

Split(s, sep) == SplitFrom(s, sep, "")

RECURSIVE JoinStrings(_, _)
JoinStrings(elems, sep) ==
    IF elems = <<>> THEN ""
    ELSE IF Len(elems) = 1 THEN elems[1]
    ELSE elems[1] \o sep \o JoinStrings(Tail(elems), sep)

\* the element stack of path.Clean: drops "" and ".", resolves ".."
RECURSIVE CleanElems(_, _, _)
CleanElems(elems, rooted, acc) ==
    IF elems = <<>> THEN acc
    ELSE LET e == Head(elems)
             rest == Tail(elems)
         IN  IF e = "" \/ e = "." THEN CleanElems(rest, rooted, acc)
             ELSE IF e = ".."
                  THEN IF acc # <<>> /\ acc[Len(acc)] # ".."
                       THEN CleanElems(rest, rooted, SubSeq(acc, 1, Len(acc) - 1))
                       ELSE IF rooted THEN CleanElems(rest, rooted, acc)
                            ELSE CleanElems(rest, rooted, Append(acc, ".."))
                  ELSE CleanElems(rest, rooted, Append(acc, e))

PathClean(p) ==
    LET rooted == HasPrefix(p, "/")
        kept == CleanElems(Split(p, "/"), rooted, <<>>)
    IN  IF rooted THEN "/" \o JoinStrings(kept, "/")
        ELSE IF kept = <<>> THEN "." ELSE JoinStrings(kept, "/")

\* path.Join of two elements: empty elements are ignored, the result is Clean
PathJoin(a, b) ==
    IF a = "" /\ b = "" THEN ""
    ELSE IF a = "" THEN PathClean(b)
    ELSE IF b = "" THEN PathClean(a)
    ELSE PathClean(a \o "/" \o b)

\* the bytes of the model's strings that take part in a comparison, in byte order
ByteOrder == "-./:_abcdefghijklmnopqrstuvwxyz"

ByteOf(c) == CHOOSE k \in 1..Len(ByteOrder) : SubSeq(ByteOrder, k, k) = c

\* > in place of <
RECURSIVE StringGreater(_, _)
StringGreater(a, b) ==
    IF a = "" THEN FALSE
    ELSE IF b = "" THEN TRUE
    ELSE LET x == ByteOf(SubSeq(a, 1, 1))
             y == ByteOf(SubSeq(b, 1, 1))
         IN  IF x # y THEN x > y
             ELSE StringGreater(SubSeq(a, 2, Len(a)), SubSeq(b, 2, Len(b)))

\* Go's < on strings
RECURSIVE StringLess(_, _)
StringLess(a, b) ==
    IF b = "" THEN FALSE
    ELSE IF a = "" THEN TRUE
    ELSE LET x == ByteOf(SubSeq(a, 1, 1))
             y == ByteOf(SubSeq(b, 1, 1))
         IN  IF x # y THEN x < y
             ELSE StringLess(SubSeq(a, 2, Len(a)), SubSeq(b, 2, Len(b)))

(***************************************************************************)
(* []string slices over a heap of backing arrays                           *)
(***************************************************************************)
NilSlice == [ptr |-> 0, len |-> 0, cap |-> 0]

\* the elements a slice shows
Elems(h, s) == IF s.len = 0 THEN <<>> ELSE SubSeq(h[s.ptr], 1, s.len)

\* a slice literal []string{...}: a fresh array exactly as long as the literal
SliceLiteral(h, xs) ==
    [heap |-> Append(h, xs),
     slice |-> [ptr |-> Len(h) + 1, len |-> Len(xs), cap |-> Len(xs)]]

\* the capacity append() grows to (small slices double; size classes left out)
GrowCap(oldCap, newLen) == IF newLen > 2 * oldCap THEN newLen ELSE 2 * oldCap

\* append(s, xs...): in place when the capacity allows, else into a fresh array
AppendSlice(h, s, xs) ==
    LET n == s.len + Len(xs)
    IN  IF n <= s.cap
        THEN [heap |-> [h EXCEPT ![s.ptr] =
                           [k \in 1..s.cap |->
                               IF k > s.len /\ k <= n THEN xs[k - s.len] ELSE @[k]]],
              slice |-> [s EXCEPT !.len = n]]
        ELSE LET c == GrowCap(s.cap, n)
             IN  [heap |-> Append(h, [k \in 1..c |->
                               IF k <= s.len THEN h[s.ptr][k]
                               ELSE IF k <= n THEN xs[k - s.len] ELSE ""]),
                  slice |-> [ptr |-> Len(h) + 1, len |-> n, cap |-> c]]

(***************************************************************************)
(* The build tool: what `bazel info`, aquery and cquery answer             *)
(***************************************************************************)
CppCompile == "CppCompile"
ObjcCompile == "ObjcCompile"
Mnemonics == {CppCompile, ObjcCompile}

\* `bazel info <key>`: every key has a directory of its own
BazelInfo(key) ==
    CASE key = "workspace" -> "/ws"
      [] key = "execution_root" -> "/ob/execroot/ws"
      [] key = "output_base" -> "/ob"
      [] key = "bazel-bin" -> "/ob/execroot/ws/bazel-out/bin"

XcrunSDKPath == "/xcode/sdk"
XcodeSelectPath == "/xcode"

\* a response json.Unmarshal rejects
Malformed == [Malformed |-> TRUE]

\* _extensions of src_paths.cquery.bzl
Extensions == {"cc", "cpp", "cxx", "h", "hh", "hpp", "hxx", "ipp"}

\* File.extension: what follows the rightmost period of the basename
FileExtension(path) ==
    LET elems == Split(path, "/")
        parts == Split(elems[Len(elems)], ".")
    IN  IF Len(parts) = 1 THEN "" ELSE parts[Len(parts)]

\* format(target) of src_paths.cquery.bzl; a target is the list of its files' paths
Format(files) ==
    IF Len(files) = 0 THEN ""
    ELSE IF FileExtension(files[1]) \notin Extensions THEN ""
    ELSE files[1]

\* stdout of `bazel cquery --output starlark`: one formatted line per source target
RECURSIVE CqueryStdout(_)
CqueryStdout(targets) ==
    IF targets = <<>> THEN ""
    ELSE Format(Head(targets)) \o "\n" \o CqueryStdout(Tail(targets))

\* bufio.Scanner with ScanLines over s: the lines, without a final empty token
ScanLines(s) ==
    LET parts == Split(s, "\n")
    IN  IF parts[Len(parts)] = "" THEN SubSeq(parts, 1, Len(parts) - 1) ELSE parts

(***************************************************************************)
(* queryMnemonic: the argument transformer                                 *)
(***************************************************************************)
\* the path rewriting of one kept argument
RewritePath(arg) ==
    IF HasPrefix(arg, "-Ibazel-out")
    THEN "-I" \o PathJoin(outputBaseDir, TrimPrefix(arg, "-I"))
    ELSE IF HasPrefix(arg, "external/") \/ HasPrefix(arg, "bazel-out")
         THEN PathJoin(outputBaseDir, arg)
         ELSE arg

\* the placeholder substitution of one kept argument
SubstitutePlaceholders(arg) ==
    IF goos = "darwin"
    THEN ReplaceAll(ReplaceAll(arg, "__BAZEL_XCODE_SDKROOT__", xcodeSDKPath),
                    "__BAZEL_XCODE_DEVELOPER_DIR__", xcodeDeveloperDir)
    ELSE arg

TransformArg(arg) == SubstitutePlaceholders(RewritePath(arg))

\* "-c" dropped alone, its operand kept
SkipPairNoOperand(i) == i + 1

\* the index the loop continues at after a "-c" at index i
SkipPair(i) == i + 2

\* the loop over action.Arguments[1:], i counted from 0 as in the code
RECURSIVE ArgLoop(_, _, _, _)
ArgLoop(arguments, i, h, s) ==
    IF i >= Len(arguments) THEN [heap |-> h, slice |-> s]
    ELSE LET arg == arguments[i + 1]
         IN  IF arg = "-c" THEN ArgLoop(arguments, SkipPair(i), h, s)
             ELSE LET r == AppendSlice(h, s, <<TransformArg(arg)>>)
                  IN  ArgLoop(arguments, i + 1, r.heap, r.slice)

\* the two arguments every list starts with
CompilerPrefix(n) ==
    IF n = ObjcCompile THEN <<"clang", "-xobjective-c++">> ELSE <<"clang", "-xc++">>

\* args of one matching action
TransformArgs(arguments, n, h) ==
    LET lit == SliceLiteral(h, CompilerPrefix(n))
    IN  ArgLoop(arguments, 1, lit.heap, lit.slice)

\* m[k] = v of a Go map
MapPut(m, k, v) == [x \in DOMAIN m \cup {k} |-> IF x = k THEN v ELSE m[x]]

EmptyMap == [x \in {} |-> 0]

\* the loop over container.Targets
RECURSIVE AddTargetLabels(_, _)
AddTargetLabels(targets, tl) ==
    IF targets = <<>> THEN tl
    ELSE AddTargetLabels(Tail(targets), MapPut(tl, Head(targets).ID, Head(targets).Label))

\* the label lookup of one matching action
KnownLabel(tl, id) == id \in DOMAIN tl

\* the loop over container.Actions; it stops at the first missing label
RECURSIVE ActionLoop(_, _, _, _, _)
ActionLoop(actions, n, tl, cc, h) ==
    IF actions = <<>> THEN [cc |-> cc, heap |-> h, ok |-> TRUE]
    ELSE LET a == Head(actions)
         IN  IF a.Mnemonic # n THEN ActionLoop(Tail(actions), n, tl, cc, h)
             ELSE IF ~KnownLabel(tl, a.TargetID) THEN [cc |-> cc, heap |-> h, ok |-> FALSE]
             ELSE LET r == TransformArgs(a.Arguments, n, h)
                      t == [srcs |-> <<>>, args |-> r.slice, label |-> ""]
                  IN  ActionLoop(Tail(actions), n, tl, MapPut(cc, tl[a.TargetID], t), r.heap)

(***************************************************************************)
(* main                                                                    *)
(***************************************************************************)
world == <<goos, env, bazel>>
dirs == <<workspace, executionRoot, outputBaseDir, binDir, xcodeSDKPath, xcodeDeveloperDir>>
graph == <<container, targetLabels, ccTargets, heap>>
scan == <<labels, scannedSrcs, li>>
result == <<compileCommands, output>>

\* cmd.Run(): the command and how it ended are on record
Run(argv, ok) == invoked' = Append(invoked, [argv |-> argv, ok |-> ok])

\* the error of cmd.Run() ignored
RunFailedNever(ok) == FALSE

\* err != nil after cmd.Run()
RunFailed(ok) == ~ok

\* panic(...): the deferred os.RemoveAll(tmpDir) runs, the process ends non-zero
Panic(msg) == pc' = "failed" /\ diag' = msg /\ tmpDir' = FALSE

Goto(next) == pc' = next /\ UNCHANGED <<diag, tmpDir>>

\* the command getBazelInfo(v) runs, and what it returns when the command succeeds
InfoCommand(v) == <<"bazel", "info", "workspace">>
GetBazelInfo(v) == BazelInfo(InfoCommand(v)[3])

ResolveWorkspace ==
    /\ pc = "workspace"
    /\ \/ /\ workspace # ""
          /\ Goto("execution_root")
          /\ UNCHANGED <<world, invoked, dirs, graph, scan, result>>
       \/ /\ workspace = ""
          /\ \E ok \in BOOLEAN :
                /\ Run(InfoCommand("workspace"), ok)
                /\ IF RunFailed(ok)
                   THEN Panic("could not get workspace") /\ UNCHANGED workspace
                   ELSE Goto("execution_root") /\ workspace' = GetBazelInfo("workspace")
          /\ UNCHANGED <<world, executionRoot, outputBaseDir, binDir, xcodeSDKPath,
                         xcodeDeveloperDir, graph, scan, result>>

ResolveExecutionRoot ==
    /\ pc = "execution_root"
    /\ \E ok \in BOOLEAN :
          /\ Run(InfoCommand("execution_root"), ok)
          /\ IF RunFailed(ok)
             THEN Panic("could not get execution_root") /\ UNCHANGED executionRoot
             ELSE Goto("output_base") /\ executionRoot' = GetBazelInfo("execution_root")
    /\ UNCHANGED <<world, workspace, outputBaseDir, binDir, xcodeSDKPath,
                   xcodeDeveloperDir, graph, scan, result>>

ResolveOutputBase ==
    /\ pc = "output_base"
    /\ \E ok \in BOOLEAN :
          /\ Run(InfoCommand("output_base"), ok)
          /\ IF RunFailed(ok)
             THEN Panic("could not get output_base") /\ UNCHANGED outputBaseDir
             ELSE Goto("bazel-bin") /\ outputBaseDir' = GetBazelInfo("output_base")
    /\ UNCHANGED <<world, workspace, executionRoot, binDir, xcodeSDKPath,
                   xcodeDeveloperDir, graph, scan, result>>

\* after the last info query the switch on runtime.GOOS picks the next command
ResolveBinDir ==
    /\ pc = "bazel-bin"
    /\ \E ok \in BOOLEAN :
          /\ Run(InfoCommand("bazel-bin"), ok)
          /\ IF RunFailed(ok)
             THEN Panic("could not get bazel-bin") /\ UNCHANGED binDir
             ELSE /\ Goto(IF goos = "darwin" THEN "xcode_sdk" ELSE "aquery_cpp")
                  /\ binDir' = GetBazelInfo("bazel-bin")
    /\ UNCHANGED <<world, workspace, executionRoot, outputBaseDir, xcodeSDKPath,
                   xcodeDeveloperDir, graph, scan, result>>

GetXcodeSDKPath ==
    /\ pc = "xcode_sdk"
    /\ \E ok \in BOOLEAN :
          /\ Run(<<"xcrun", "--sdk", "macosx", "--show-sdk-path">>, ok)
          /\ IF RunFailed(ok)
             THEN Panic("could not get sdk path") /\ UNCHANGED xcodeSDKPath
             ELSE Goto("xcode_dir") /\ xcodeSDKPath' = XcrunSDKPath
    /\ UNCHANGED <<world, workspace, executionRoot, outputBaseDir, binDir,
                   xcodeDeveloperDir, graph, scan, result>>

GetXcodeDeveloperDir ==
    /\ pc = "xcode_dir"
    /\ \E ok \in BOOLEAN :
          /\ Run(<<"xcode-select", "-p">>, ok)
          /\ IF RunFailed(ok)
             THEN Panic("could not get xcode developer directory")
                  /\ UNCHANGED xcodeDeveloperDir
             ELSE Goto("aquery_cpp") /\ xcodeDeveloperDir' = XcodeSelectPath
    /\ UNCHANGED <<world, workspace, executionRoot, outputBaseDir, binDir,
                   xcodeSDKPath, graph, scan, result>>

AqueryCommand(n) ==
    <<"bazel", "aquery", "mnemonic(\"" \o n \o "\", //...)", "--output=jsonproto">>

\* queryMnemonic(n), called at position `at` of main and followed by `next`
QueryMnemonic(at, n, next) ==
    /\ pc = at
    /\ \E ok \in BOOLEAN :
          /\ Run(AqueryCommand(n), ok)
          /\ IF RunFailed(ok)
             THEN Panic("failed to run Bazel") /\ UNCHANGED graph
             ELSE IF bazel.aquery[n] = Malformed
             THEN Panic("failed to parse aquery output") /\ UNCHANGED graph
             ELSE LET c == bazel.aquery[n]
                      tl == AddTargetLabels(c.Targets, targetLabels)
                      r == ActionLoop(c.Actions, n, tl, ccTargets, heap)
                  IN  /\ container' = c
                      /\ targetLabels' = tl
                      /\ ccTargets' = r.cc
                      /\ heap' = r.heap
                      /\ IF r.ok THEN Goto(next) ELSE Panic("missing label in aquery output")
    /\ UNCHANGED <<world, dirs, scan, result>>

\* the orders a range over a map with key set S can come in
Orders(S) == {f \in [1..Cardinality(S) -> S] : \A i, j \in DOMAIN f : i # j => f[i] # f[j]}

RECURSIVE InsertSorted(_, _)
InsertSorted(sorted, x) ==
    IF sorted = <<>> THEN <<x>>
    ELSE IF StringLess(x, Head(sorted)) THEN <<x>> \o sorted
    ELSE <<Head(sorted)>> \o InsertSorted(Tail(sorted), x)

RECURSIVE SortInto(_, _)
SortInto(xs, sorted) ==
    IF xs = <<>> THEN sorted ELSE SortInto(Tail(xs), InsertSorted(sorted, Head(xs)))

\* the labels left in the order of the map range
SortUnsorted(xs) == xs

\* labels.Sort()
Sort(xs) == SortInto(xs, <<>>)

\* the label slice, the temporary directory and the cquery file
PrepareCquery ==
    /\ pc = "labels"
    /\ \E order \in Orders(DOMAIN ccTargets) : labels' = Sort(order)
    /\ \E step \in {"ok", "mkdir", "write"} :
          CASE step = "mkdir" -> Panic("failed to create temporary directory")
            [] step = "write" -> Panic("failed to write cquery file")
            [] OTHER -> pc' = "cquery" /\ tmpDir' = TRUE /\ UNCHANGED diag
    /\ UNCHANGED <<world, invoked, dirs, graph, scannedSrcs, li, result>>

CqueryCommand(label, cqueryPath) ==
    <<"bazel", "cquery", "kind(\"source file\", deps(" \o label \o "))",
      "--output", "starlark", "--starlark:file", cqueryPath>>

\* no line taken for scanned already
FirstSightAlways(seen, txt) == TRUE

\* a line is new to the scan
FirstSight(seen, txt) == txt \notin seen

\* the scanner loop: empty lines and lines already scanned are skipped
RECURSIVE ScanLoop(_, _, _)
ScanLoop(lines, seen, srcs) ==
    IF lines = <<>> THEN [seen |-> seen, srcs |-> srcs]
    ELSE LET txt == Head(lines)
         IN  IF txt = "" THEN ScanLoop(Tail(lines), seen, srcs)
             ELSE IF ~FirstSight(seen, txt) THEN ScanLoop(Tail(lines), seen, srcs)
             ELSE ScanLoop(Tail(lines), seen \cup {txt}, Append(srcs, txt))

\* one iteration of the loop over labels: the cquery run and its scan
QuerySources ==
    /\ pc = "cquery"
    /\ li <= Len(labels)
    /\ LET label == labels[li]
           lines == ScanLines(CqueryStdout(bazel.deps[label]))
       IN  \E ok \in BOOLEAN, read \in 0..Len(lines) :
              /\ Run(CqueryCommand(label, "/tmp/cquery/src_cquery.bzl"), ok)
              /\ IF RunFailed(ok)
                 THEN /\ Panic("failed to query source paths")
                      /\ read = 0
                      /\ UNCHANGED <<scannedSrcs, ccTargets, li>>
                 ELSE LET r == ScanLoop(SubSeq(lines, 1, read), scannedSrcs, <<>>)
                      IN  /\ scannedSrcs' = r.seen
                          /\ IF read < Len(lines)
                             THEN /\ Panic("failed to parse output of bazel cquery")
                                  /\ UNCHANGED <<ccTargets, li>>
                             ELSE /\ ccTargets' = [ccTargets EXCEPT ![label].srcs = r.srcs]
                                  /\ li' = li + 1
                                  /\ UNCHANGED <<pc, diag, tmpDir>>
    /\ UNCHANGED <<world, dirs, container, targetLabels, heap, labels, result>>

\* the arguments every entry ends with
EntryTail(src) == <<"-iquote", binDir, "-iquote", executionRoot, "-iquote", outputBaseDir, src>>

\* the inner loop of the assembly: one entry per source of a target
RECURSIVE AssembleSrcs(_, _, _, _)
AssembleSrcs(srcs, target, h, cmds) ==
    IF srcs = <<>> THEN [heap |-> h, cmds |-> cmds]
    ELSE LET r == AppendSlice(h, target.args, EntryTail(Head(srcs)))
             e == [Directory |-> workspace, File |-> Head(srcs), Arguments |-> r.slice]
         IN  AssembleSrcs(Tail(srcs), target, r.heap,
                          [nil |-> FALSE, items |-> Append(cmds.items, e)])

\* the outer loop of the assembly
RECURSIVE AssembleLabels(_, _, _)
AssembleLabels(ls, h, cmds) ==
    IF ls = <<>> THEN [heap |-> h, cmds |-> cmds]
    ELSE LET r == AssembleSrcs(ccTargets[Head(ls)].srcs, ccTargets[Head(ls)], h, cmds)
         IN  AssembleLabels(Tail(ls), r.heap, r.cmds)

\* var compileCommands []compileCommand
NilCommands == [nil |-> TRUE, items |-> <<>>]

\* json.MarshalIndent(&compileCommands, ...): a nil slice marshals as null
Marshal(cmds, h) ==
    IF cmds.nil THEN [json |-> "null", items |-> <<>>]
    ELSE [json |-> "array",
          items |-> [k \in 1..Len(cmds.items) |->
                        [directory |-> cmds.items[k].Directory,
                         arguments |-> Elems(h, cmds.items[k].Arguments),
                         file |-> cmds.items[k].File]]]

\* what a failed ioutil.WriteFile can leave behind
Truncated == [json |-> "", items |-> <<>>]

\* the assembly, the serialisation and the write of compile_commands.json
WriteOutput ==
    /\ pc = "cquery"
    /\ li > Len(labels)
    /\ LET r == AssembleLabels(labels, heap, NilCommands)
           path == PathJoin(workspace, "compile_commands.json")
       IN  /\ heap' = r.heap
           /\ compileCommands' = r.cmds
           /\ \E ok \in BOOLEAN, created \in BOOLEAN :
                 IF ok
                 THEN /\ created
                      /\ output' = Append(output, [path |-> path, content |-> Marshal(r.cmds, r.heap)])
                      /\ pc' = "done" /\ tmpDir' = FALSE /\ UNCHANGED diag
                 ELSE /\ output' = IF created
                                   THEN Append(output, [path |-> path, content |-> Truncated])
                                   ELSE output
                      /\ Panic("write failed")
    /\ UNCHANGED <<world, invoked, dirs, container, targetLabels, ccTargets, scan>>

Next ==
    \/ ResolveWorkspace
    \/ ResolveExecutionRoot
    \/ ResolveOutputBase
    \/ ResolveBinDir
    \/ GetXcodeSDKPath
    \/ GetXcodeDeveloperDir
    \/ QueryMnemonic("aquery_cpp", CppCompile, "aquery_objc")
    \/ QueryMnemonic("aquery_objc", ObjcCompile, "labels")
    \/ PrepareCquery
    \/ QuerySources
    \/ WriteOutput

(***************************************************************************)
(* The build graphs the runs are checked on                                *)
(***************************************************************************)
LabelA == "//a:x"
LabelB == "//b:y"
LabelZ == "//a/b:z"
AllLabels == {LabelA, LabelB, LabelZ}
IDs == {1, 2}

Target(i, l) == [ID |-> i, Label |-> l]
Action(i, m, args) == [TargetID |-> i, Mnemonic |-> m, Arguments |-> args]
Graph(ts, as) == [Targets |-> ts, Actions |-> as]

SeqsUpTo(S, n) == UNION {[1..k -> S] : k \in 0..n}

\* source-file targets, each the list of its files
SrcA == <<"a/a.cc">>
SrcB == <<"b/b.cc">>
SrcCommon == <<"common.h">>
SrcDoc == <<"a/notes.md">>
SrcNoFiles == <<>>

\* the example of two targets sharing a header
ExampleDeps ==
    [l \in AllLabels |->
        CASE l = LabelA -> <<SrcA, SrcCommon>>
          [] l = LabelB -> <<SrcCommon, SrcB>>
          [] OTHER -> <<SrcNoFiles, SrcCommon, SrcDoc, SrcA>>]

\* seven arguments are kept of these: the list then has two of sixteen slots free
LongArgs ==
    <<"gcc", "-c", "a/a.cc", "-DA", "-O2", "-Wall", "-g", "-Ibazel-out/bin",
      "-isystem", "external/e">>

GraphArgs(i) ==
    IF i = 1 THEN <<"gcc", "-c", "a/a.cc", "-DT1">>
    ELSE <<"gcc", "-DT2", "-Ibazel-out/bin/b">>

ExampleCpp ==
    Graph(<<Target(1, LabelA), Target(2, LabelB)>>,
          <<Action(1, CppCompile, LongArgs), Action(2, CppCompile, GraphArgs(2))>>)

EmptyGraph == Graph(<<>>, <<>>)

\* graphs: every short list of targets with every short list of actions
TargetLists ==
    {<<>>} \cup {<<Target(i, l)>> : i \in IDs, l \in {LabelA, LabelB}}
           \cup {<<Target(1, l1), Target(2, l2)>> : l1, l2 \in {LabelA, LabelB}}

ActionLists ==
    SeqsUpTo({Action(i, m, GraphArgs(i)) : i \in IDs, m \in Mnemonics}, MaxActions)

CppGraphs == {Graph(ts, as) : ts \in TargetLists, as \in ActionLists} \cup {Malformed}

ObjcGraphs ==
    { EmptyGraph,
      Malformed,
      Graph(<<Target(1, LabelZ)>>, <<Action(1, ObjcCompile, GraphArgs(1))>>),
      Graph(<<>>, <<Action(1, ObjcCompile, GraphArgs(1))>>),
      Graph(<<Target(2, LabelA)>>,
            <<Action(2, CppCompile, GraphArgs(2)), Action(1, ObjcCompile, GraphArgs(1))>>) }

GraphWorlds ==
    {[goos |-> "linux", env |-> "", cpp |-> c, objc |-> o, deps |-> ExampleDeps] :
        c \in CppGraphs, o \in ObjcGraphs}

\* source enumerations: every short list of source targets for the two labels
SrcLists == SeqsUpTo({SrcA, SrcB, SrcCommon, SrcDoc}, MaxSrcs)

SourceWorlds ==
    {[goos |-> "linux", env |-> "", cpp |-> ExampleCpp, objc |-> EmptyGraph,
      deps |-> [l \in AllLabels |-> IF l = LabelA THEN da ELSE IF l = LabelB THEN db ELSE <<>>]] :
        da \in SrcLists, db \in SrcLists}

\* platforms and the workspace override
HostWorlds ==
    {[goos |-> g, env |-> e, cpp |-> ExampleCpp, objc |-> o, deps |-> ExampleDeps] :
        g \in {"linux", "darwin"}, e \in {"", "/env"},
        o \in {EmptyGraph, Graph(<<Target(1, LabelZ)>>, <<Action(1, ObjcCompile, LongArgs)>>)}}

Worlds == GraphWorlds \cup SourceWorlds \cup HostWorlds

\* argument lists: a compiler followed by every short list of these arguments
ArgTokens ==
    {"-c", "-O2", "-Ibazel-out/bin", "-Iexternal/e", "external/e/x.h",
     "bazel-out/../g/", "-F__BAZEL_XCODE_SDKROOT__/F"}

ArgLists == {<<>>} \cup {<<"gcc">> \o t : t \in SeqsUpTo(ArgTokens, MaxArgs)}

ArgWorlds ==
    {[goos |-> h[1], env |-> h[2],
      cpp |-> Graph(<<Target(1, LabelA)>>, <<Action(1, CppCompile, args)>>),
      objc |-> Graph(<<Target(1, LabelB)>>,
                     <<Action(1, ObjcCompile, <<"clang", "-c", "-c", "b/b.cc">>)>>),
      deps |-> ExampleDeps] :
        h \in {<<"linux", "">>, <<"darwin", "/env">>}, args \in ArgLists}

InitWith(worlds) ==
    /\ \E w \in worlds :
          /\ goos = w.goos
          /\ env = w.env
          /\ bazel = [aquery |-> [n \in Mnemonics |-> IF n = CppCompile THEN w.cpp ELSE w.objc],
                      deps |-> w.deps]
    /\ pc = "workspace"
    /\ diag = ""
    /\ invoked = <<>>
    /\ workspace = env
    /\ executionRoot = ""
    /\ outputBaseDir = ""
    /\ binDir = ""
    /\ xcodeSDKPath = ""
    /\ xcodeDeveloperDir = ""
    /\ container = EmptyGraph
    /\ targetLabels = EmptyMap
    /\ ccTargets = EmptyMap
    /\ heap = <<>>
    /\ labels = <<>>
    /\ tmpDir = FALSE
    /\ scannedSrcs = {}
    /\ li = 1
    /\ compileCommands = NilCommands
    /\ output = <<>>

Init == InitWith(Worlds)
InitArgs == InitWith(ArgWorlds)

Spec == Init /\ [][Next]_vars
SpecArgs == InitArgs /\ [][Next]_vars

(***************************************************************************)
(* Vocabulary of the properties                                            *)
(***************************************************************************)
Done == pc = "done"

\* the entries of the file a finished run wrote
Entries == output[Len(output)].content.items

IsPrefix(p, q) == Len(p) <= Len(q) /\ SubSeq(q, 1, Len(p)) = p

\* the label each entry was assembled for, in the order of the assembly
RECURSIVE LabelsOfEntries(_)
LabelsOfEntries(ls) ==
    IF ls = <<>> THEN <<>>
    ELSE [k \in 1..Len(ccTargets[Head(ls)].srcs) |-> Head(ls)] \o LabelsOfEntries(Tail(ls))

EntryLabels == LabelsOfEntries(labels)

\* the non-empty lines the source query prints for a label
ListedLines(l) == SelectSeq([k \in DOMAIN bazel.deps[l] |-> Format(bazel.deps[l][k])],
                            LAMBDA x : x # "")

Enumerated(l) == {ListedLines(l)[k] : k \in DOMAIN ListedLines(l)}

\* the byte order of the three labels, written out
Rank(l) == CASE l = LabelZ -> 1 [] l = LabelA -> 2 [] l = LabelB -> 3

\* the mnemonic of the query whose graph `container` holds
AfterQuery == pc \in {"aquery_objc", "labels", "cquery", "done"}
Queried == IF pc = "aquery_objc" THEN CppCompile ELSE ObjcCompile

\* the matching actions of the graph, by index
Matching == {k \in DOMAIN container.Actions : container.Actions[k].Mnemonic = Queried}

\* the last matching action of its label: the one whose arguments ccTargets keeps
IsLastOfLabel(k) ==
    \A j \in Matching :
        j > k => targetLabels[container.Actions[j].TargetID]
                    # targetLabels[container.Actions[k].TargetID]

\* the number of consecutive "-c" right before index i, not counting the compiler slot
RECURSIVE RunOfC(_, _)
RunOfC(args, i) == IF i <= 2 \/ args[i - 1] # "-c" THEN 0 ELSE 1 + RunOfC(args, i - 1)

\* a left-to-right pairing of each "-c" with its operand drops these indices
DroppedByPairs(args, i) == args[i] = "-c" \/ RunOfC(args, i) % 2 = 1

\* every "-c" and every argument right after a "-c"
DroppedAfterAnyC(args, i) == args[i] = "-c" \/ (i > 2 /\ args[i - 1] = "-c")

TransformedOf(k) ==
    LET a == container.Actions[k]
        t == ccTargets[targetLabels[a.TargetID]]
    IN  SubSeq(Elems(heap, t.args), 3, t.args.len)

\* the kept arguments of action k, transformed, for a given rule of what is dropped
ExpectedKept(k, Dropped(_, _)) ==
    LET args == container.Actions[k].Arguments
        idx == SelectSeq([i \in 1..Len(args) |-> i], LAMBDA i : i >= 2 /\ ~Dropped(args, i))
    IN  [j \in 1..Len(idx) |-> TransformArg(args[idx[j]])]

(***************************************************************************)
(* C1  Stripping of "-c <file>"                                            *)
(***************************************************************************)
\* C1 as stated: the transformed list of a matching action holds no "-c" and no
\* argument that immediately followed a "-c" in the input; every other argument
\* from position 1 onward is kept, in order.
C1_DropsEveryArgumentAfterC ==
    AfterQuery =>
        \A k \in Matching :
            IsLastOfLabel(k) =>
                /\ \A j \in DOMAIN TransformedOf(k) : TransformedOf(k)[j] # "-c"
                /\ TransformedOf(k) = ExpectedKept(k, DroppedAfterAnyC)

\* C1 amended: the transformed list of a matching action holds no "-c" and no
\* argument that followed an odd-length run of consecutive "-c" (a "-c" that is
\* itself the operand of the "-c" before it takes no operand); every other
\* argument from position 1 onward is kept, in order.
C1_DropsCPairs ==
    AfterQuery =>
        \A k \in Matching :
            IsLastOfLabel(k) =>
                /\ \A j \in DOMAIN TransformedOf(k) : TransformedOf(k)[j] # "-c"
                /\ TransformedOf(k) = ExpectedKept(k, DroppedByPairs)

\* a "-c" whose operand is a "-c": the argument after the pair was kept
C1_Witness ==
    /\ pc = "aquery_objc"
    /\ \E k \in Matching :
          /\ container.Actions[k].Arguments = <<"gcc", "-c", "-c", "-O2">>
          /\ TransformedOf(k) = <<"-O2">>

(***************************************************************************)
(* C2  Path rewriting under the output base                                *)
(***************************************************************************)
Marked(p) == HasPrefix(p, "external/") \/ HasPrefix(p, "bazel-out")

\* C2 as stated: every kept argument that starts with a marker, or is an include
\* flag whose path starts with one, appears joined under the directory the build
\* tool reports for output_base; every other kept argument passes through
\* unchanged apart from the placeholder substitution.
C2_RewritesUnderOutputBase ==
    AfterQuery =>
        \A k \in Matching :
            IsLastOfLabel(k) =>
                LET args == container.Actions[k].Arguments
                    idx == SelectSeq([i \in 1..Len(args) |-> i],
                                     LAMBDA i : i >= 2 /\ ~DroppedByPairs(args, i))
                    base == BazelInfo("output_base")
                IN  /\ Len(TransformedOf(k)) = Len(idx)
                    /\ \A j \in DOMAIN idx :
                          LET arg == args[idx[j]]
                          IN  TransformedOf(k)[j] = SubstitutePlaceholders(
                                  IF Marked(arg) THEN PathJoin(base, arg)
                                  ELSE IF HasPrefix(arg, "-I") /\ Marked(TrimPrefix(arg, "-I"))
                                       THEN "-I" \o PathJoin(base, TrimPrefix(arg, "-I"))
                                       ELSE arg)

(***************************************************************************)
(* C3  One entry per source path                                           *)
(***************************************************************************)
\* C3: after a successful run no source path is the file of two entries, and the
\* file of every entry is among the sources enumerated for the target whose
\* arguments the entry starts with.
C3_SourcesOnceAndOwned ==
    Done =>
        /\ \A i, j \in DOMAIN Entries : Entries[i].file = Entries[j].file => i = j
        /\ Len(Entries) = Len(EntryLabels)
        /\ \A k \in DOMAIN Entries :
              /\ IsPrefix(Elems(heap, ccTargets[EntryLabels[k]].args), Entries[k].arguments)
              /\ Entries[k].file \in Enumerated(EntryLabels[k])

\* a header enumerated twice for one target and once more for another
C3_Witness ==
    /\ Done
    /\ bazel.deps[LabelA] = <<SrcCommon, SrcCommon>>
    /\ bazel.deps[LabelB] = <<SrcCommon, SrcB>>
    /\ Len(Entries) = 2

(***************************************************************************)
(* C4  A shared source goes to the smallest label                          *)
(***************************************************************************)
\* C4: the one entry of a source enumerated for several targets starts with the
\* arguments of the smallest of their labels; //a:x (a.cc, common.h) and
\* //b:y (common.h, b.cc) give three entries, common.h with those of //a:x.
C4_SharedSourceToSmallestLabel ==
    Done =>
        /\ \A l \in DOMAIN ccTargets : \A f \in Enumerated(l) :
              \E k \in DOMAIN Entries :
                 /\ Entries[k].file = f
                 /\ \A m \in DOMAIN ccTargets :
                       (f \in Enumerated(m) /\ \A o \in DOMAIN ccTargets :
                                                  f \in Enumerated(o) => Rank(m) <= Rank(o))
                       => IsPrefix(Elems(heap, ccTargets[m].args), Entries[k].arguments)
        /\ (DOMAIN ccTargets = {LabelA, LabelB} /\ bazel.deps = ExampleDeps) =>
              /\ Len(Entries) = 3
              /\ \E k \in DOMAIN Entries :
                    /\ Entries[k].file = "common.h"
                    /\ IsPrefix(Elems(heap, ccTargets[LabelA].args), Entries[k].arguments)
                    /\ ~IsPrefix(Elems(heap, ccTargets[LabelB].args), Entries[k].arguments)

\* the example run
C4_Witness ==
    /\ Done
    /\ DOMAIN ccTargets = {LabelA, LabelB}
    /\ bazel.deps = ExampleDeps
    /\ [k \in DOMAIN Entries |-> Entries[k].file] = <<"a/a.cc", "common.h", "b/b.cc">>

(***************************************************************************)
(* C5  The info resolver                                                   *)
(***************************************************************************)
\* C5: each directory the resolver returned is the value the build tool reports
\* for the key it was asked for: execution_root, output_base and bazel-bin, and
\* workspace when the environment does not give it.
C5_InfoValueOfItsKey ==
    /\ (pc \notin {"workspace", "failed"} /\ env = "") => workspace = BazelInfo("workspace")
    /\ executionRoot # "" => executionRoot = BazelInfo("execution_root")
    /\ outputBaseDir # "" => outputBaseDir = BazelInfo("output_base")
    /\ binDir # "" => binDir = BazelInfo("bazel-bin")

(***************************************************************************)
(* C6  Abort on the first failure                                          *)
(***************************************************************************)
LastInvoked == invoked[Len(invoked)]

HasRun(argv) == \E k \in DOMAIN invoked : invoked[k].argv = argv /\ invoked[k].ok

\* C6: a failed external command is the last command of the run, and so is the
\* command whose response did not parse; the run is then in the failed state and
\* nothing was written. A written file means that every command succeeded, and
\* that both action queries and the source query of every target have run.
C6_AbortsAtFirstFailure ==
    /\ \A k \in DOMAIN invoked :
          ~invoked[k].ok => k = Len(invoked) /\ pc = "failed" /\ output = <<>>
    /\ diag = "failed to parse aquery output" =>
          pc = "failed" /\ output = <<>> /\ LastInvoked.argv[2] = "aquery"
    /\ diag = "failed to parse output of bazel cquery" =>
          pc = "failed" /\ output = <<>> /\ LastInvoked.argv[2] = "cquery"
    /\ diag = "missing label in aquery output" =>
          pc = "failed" /\ output = <<>> /\ LastInvoked.argv[2] = "aquery"
    /\ pc = "failed" => diag # ""
    /\ output # <<>> =>
          /\ \A k \in DOMAIN invoked : invoked[k].ok
          /\ \A n \in Mnemonics : HasRun(AqueryCommand(n))
          /\ \A l \in DOMAIN ccTargets : \E k \in DOMAIN invoked :
                invoked[k].argv[2] = "cquery"
                /\ invoked[k].argv[3] = "kind(\"source file\", deps(" \o l \o "))"

\* the source query of the second of two targets failed
C6_Witness ==
    /\ pc = "failed"
    /\ ~LastInvoked.ok
    /\ LastInvoked.argv[2] = "cquery"
    /\ li = 2
    /\ output = <<>>

(***************************************************************************)
(* C7  Unknown target identifiers                                          *)
(***************************************************************************)
\* C7: a run that got past a mnemonic query met no matching action whose target
\* identifier is missing from the targets of the graph that query returned.
C7_UnknownTargetAborts ==
    AfterQuery =>
        \A k \in Matching :
            \E t \in DOMAIN container.Targets :
                container.Targets[t].ID = container.Actions[k].TargetID

(***************************************************************************)
(* C8  Order of the output                                                 *)
(***************************************************************************)
\* index of the first occurrence of x in xs
FirstIndex(xs, x) == CHOOSE i \in DOMAIN xs : xs[i] = x /\ \A j \in 1..(i - 1) : xs[j] # x

RECURSIVE Flatten(_)
Flatten(ls) == IF ls = <<>> THEN <<>> ELSE ccTargets[Head(ls)].srcs \o Flatten(Tail(ls))

\* C8: whatever order the label map is ranged in, the labels are processed in
\* ascending byte order, each once; the written entries follow that order, and
\* within a label the order in which the source query listed them.
C8_OutputOrder ==
    /\ pc \in {"cquery", "done"} =>
          /\ {labels[i] : i \in DOMAIN labels} = DOMAIN ccTargets
          /\ \A i, j \in DOMAIN labels : i < j => Rank(labels[i]) < Rank(labels[j])
    /\ Done =>
          /\ [k \in DOMAIN Entries |-> Entries[k].file] = Flatten(labels)
          /\ \A l \in DOMAIN ccTargets :
                LET srcs == ccTargets[l].srcs
                IN  \A i, j \in DOMAIN srcs :
                       i < j => FirstIndex(ListedLines(l), srcs[i])
                                   < FirstIndex(ListedLines(l), srcs[j])

\* three targets, the one of the second query first in the output
C8_Witness ==
    /\ Done
    /\ labels = <<LabelZ, LabelA, LabelB>>
    /\ [k \in DOMAIN Entries |-> Entries[k].file] = <<"common.h", "a/a.cc", "b/b.cc">>

(***************************************************************************)
(* C9  The written file                                                    *)
(***************************************************************************)
\* C9: every successful run has written compile_commands.json at the workspace
\* root, once, and its content is a JSON array, empty when there is no entry.
C9_WritesArray ==
    Done =>
        /\ Len(output) = 1
        /\ output[1].path = PathJoin(workspace, "compile_commands.json")
        /\ output[1].content.json = "array"

(***************************************************************************)
(* C10  The arguments of an entry                                          *)
(***************************************************************************)
\* C10: in the written list every entry's arguments are its target's transformed
\* arguments, then -iquote <bin dir> -iquote <execution root> -iquote <output
\* base>, then the entry's own file.
C10_EntryEndsWithOwnFile ==
    Done =>
        /\ Len(Entries) = Len(EntryLabels)
        /\ \A k \in DOMAIN Entries :
              Entries[k].arguments =
                  Elems(heap, ccTargets[EntryLabels[k]].args)
                      \o <<"-iquote", binDir, "-iquote", executionRoot,
                           "-iquote", outputBaseDir, Entries[k].file>>

====
